---- MODULE Spec2Model ----
(***************************************************************************)
(* chess-search: a token moves on a rows x cols grid by the rule of a      *)
(* chess piece, never onto a visited cell; the player who cannot move      *)
(* loses.  board.c keeps the grid, minimax.c searches the game tree.       *)
(*                                                                         *)
(* The search is modelled at the grain of its recursion: one step for      *)
(* entering a minimax call, one for making a move, one for a child's       *)
(* return, one for leaving the loop.  C arrays are sequences, so index i   *)
(* of the code is index i+1 here.  The --verbose option only prints and is *)
(* left out.                                                               *)
(*                                                                         *)
(* To compare searches, the program is followed over several runs on the   *)
(* same arguments: the first without options, each later one with one more *)
(* option; prev keeps what the previous run printed.                       *)
(***************************************************************************)
EXTENDS Integers, Sequences, FiniteSets, TLC

VARIABLES
    argv,        \* main's required arguments: height, width, initial_row, initial_col, piece_type
    heuristic,   \* --heuristic given to the current run
    symmetry,    \* --symmetry given to the current run
    board,       \* the Board object of the current run, or NULL
    stack,       \* the active minimax frames, the root first
    pc,          \* where the current run stands
    retval,      \* the MinimaxResult in flight from a returning call, or NoResult
    result,      \* the MinimaxResult main printed, or NoResult
    prev,        \* options and printed result of the previous run on the same arguments, or NoRun
    invocations, \* history: number of minimax calls entered in the current run
    called       \* a function called on its own: its name, arguments and returned value, or NoCall

vars == <<argv, heuristic, symmetry, board, stack, pc, retval, result, prev, invocations, called>>

----------------------------------------------------------------------------
(* Bounds of the model. *)

MaxRows == 4            \* largest height explored
MaxCols == 4            \* largest width explored
MaxCells == 12          \* largest rows * cols searched
MaxHeuristicCells == 6  \* largest rows * cols searched with --heuristic (every tie order is explored)
MaxNeg == 1             \* how far below zero the integer arguments range
MaxOver == 1            \* how far the wide boards of the direct calls exceed MAX_POSITIONS * 2 columns
MaxCapacity == 3        \* largest small max_positions passed to board_get_available_positions

----------------------------------------------------------------------------
(* board.h / board.c *)

\* A null pointer.
NULL == [null |-> TRUE]

PIECE_ROOK == "PIECE_ROOK"
PIECE_KING == "PIECE_KING"
PIECE_QUEEN == "PIECE_QUEEN"
PIECE_KNIGHT == "PIECE_KNIGHT"
PieceType == {PIECE_ROOK, PIECE_KING, PIECE_QUEEN, PIECE_KNIGHT}

Position(row, col) == [row |-> row, col |-> col]

Direction(dr, dc) == [dr |-> dr, dc |-> dc]

ROOK_DIRS == <<Direction(1, 0), Direction(-1, 0), Direction(0, 1), Direction(0, -1)>>
ROOK_DIRS_COUNT == 4
ROOK_UNLIMITED == TRUE

KING_DIRS == <<Direction(1, 0), Direction(-1, 0), Direction(0, 1), Direction(0, -1),
               Direction(1, 1), Direction(1, -1), Direction(-1, 1), Direction(-1, -1)>>
KING_DIRS_COUNT == 8
KING_UNLIMITED == FALSE

QUEEN_DIRS == <<Direction(1, 0), Direction(-1, 0), Direction(0, 1), Direction(0, -1),
                Direction(1, 1), Direction(1, -1), Direction(-1, 1), Direction(-1, -1)>>
QUEEN_DIRS_COUNT == 8
QUEEN_UNLIMITED == TRUE

KNIGHT_DIRS == <<Direction(2, 1), Direction(2, -1), Direction(-2, 1), Direction(-2, -1),
                 Direction(1, 2), Direction(1, -2), Direction(-1, 2), Direction(-1, -2)>>
KNIGHT_DIRS_COUNT == 8
KNIGHT_UNLIMITED == FALSE

\* board->board[row * board->cols + col]
board_get(b, row, col) == b.board[row * b.cols + col]

board_set(b, row, col, value) == [b EXCEPT !.board[row * b.cols + col] = value]

\* What calloc(rows * cols, 1) can do.  A negative int product converts to a
\* size_t no allocator can serve; a request of zero bytes returns a null
\* pointer or a block of no bytes (implementation-defined); any request may
\* fail for lack of memory.
calloc(n) ==
    IF n < 0 THEN {NULL}
    ELSE {NULL, [block |-> [i \in 0..(n - 1) |-> 0]]}

UNDEFINED == [undefined |-> TRUE]

\* Mutant: the initial cell is not marked visited.
board_create_unmarked(rows, cols, initial_pos, piece_type) ==
    { IF cells = NULL THEN NULL
      ELSE [rows |-> rows, cols |-> cols, board |-> cells.block,
            pos |-> initial_pos, piece_type |-> piece_type,
            center_row2 |-> rows, center_col2 |-> cols]
      : cells \in calloc(rows * cols) }

\* The outcomes of board_create: NULL, a Board, or UNDEFINED when the store
\* of the initial cell falls outside the allocated block.  center_row and
\* center_col are rows / 2.0 and cols / 2.0; they are kept doubled
\* (center_row2 = 2 * center_row), which is exact for the doubles involved.
board_create(rows, cols, initial_pos, piece_type) ==
    { IF cells = NULL THEN NULL
      ELSE IF initial_pos.row * cols + initial_pos.col \notin DOMAIN cells.block THEN UNDEFINED
      ELSE board_set([rows |-> rows, cols |-> cols, board |-> cells.block,
                      pos |-> initial_pos, piece_type |-> piece_type,
                      center_row2 |-> rows, center_col2 |-> cols],
                     initial_pos.row, initial_pos.col, 1)
      : cells \in calloc(rows * cols) }

\* Returns the moved board and the old position.
board_make_move(b, position) ==
    [board |-> board_set([b EXCEPT !.pos = position], position.row, position.col, 1),
     old_pos |-> b.pos]

\* Mutant: the position is not restored.
board_undo_move_keeps_pos(b, unmark_pos, restore_pos) ==
    board_set(b, unmark_pos.row, unmark_pos.col, 0)

\* Mutant: the destination stays marked.
board_undo_move_keeps_mark(b, unmark_pos, restore_pos) == [b EXCEPT !.pos = restore_pos]

\* Mutant: the two positions change places.
board_undo_move_swapped(b, unmark_pos, restore_pos) ==
    [board_set(b, restore_pos.row, restore_pos.col, 0) EXCEPT !.pos = unmark_pos]

board_undo_move(b, unmark_pos, restore_pos) ==
    [board_set(b, unmark_pos.row, unmark_pos.col, 0) EXCEPT !.pos = restore_pos]

\* Mutant: the ray stops at the first visited cell.
RECURSIVE WalkDirectionBlocked(_, _, _, _, _, _, _)
WalkDirectionBlocked(b, dir, is_unlimited, new_row, new_col, positions, max_positions) ==
    IF new_row >= 0 /\ new_row < b.rows /\ new_col >= 0 /\ new_col < b.cols
       /\ b.board[new_row * b.cols + new_col] = 0
    THEN LET filled == IF Len(positions) < max_positions
                       THEN Append(positions, Position(new_row, new_col))
                       ELSE positions
         IN  IF ~is_unlimited THEN filled
             ELSE WalkDirectionBlocked(b, dir, is_unlimited, new_row + dir.dr, new_col + dir.dc,
                                       filled, max_positions)
    ELSE positions

\* Mutant: the array takes one entry more than max_positions.
RECURSIVE WalkDirectionOneMore(_, _, _, _, _, _, _)
WalkDirectionOneMore(b, dir, is_unlimited, new_row, new_col, positions, max_positions) ==
    IF new_row >= 0 /\ new_row < b.rows /\ new_col >= 0 /\ new_col < b.cols
    THEN LET filled == IF board_get(b, new_row, new_col) = 0 /\ Len(positions) <= max_positions
                       THEN Append(positions, Position(new_row, new_col))
                       ELSE positions
         IN  IF ~is_unlimited THEN filled
             ELSE WalkDirectionOneMore(b, dir, is_unlimited, new_row + dir.dr, new_col + dir.dc,
                                       filled, max_positions)
    ELSE positions

\* The while loop of check_positions_in_directions for one direction, from
\* the cell (new_row, new_col) on; positions is the array filled so far.
RECURSIVE WalkDirection(_, _, _, _, _, _, _)
WalkDirection(b, dir, is_unlimited, new_row, new_col, positions, max_positions) ==
    IF new_row >= 0 /\ new_row < b.rows /\ new_col >= 0 /\ new_col < b.cols
    THEN LET filled == IF board_get(b, new_row, new_col) = 0 /\ Len(positions) < max_positions
                       THEN Append(positions, Position(new_row, new_col))
                       ELSE positions
         IN  IF ~is_unlimited THEN filled
             ELSE WalkDirection(b, dir, is_unlimited, new_row + dir.dr, new_col + dir.dc,
                                filled, max_positions)
    ELSE positions

\* The for loop of check_positions_in_directions from direction d on.
RECURSIVE ScanDirections(_, _, _, _, _, _, _)
ScanDirections(b, dirs, dir_count, is_unlimited, d, positions, max_positions) ==
    IF d > dir_count THEN positions
    ELSE ScanDirections(b, dirs, dir_count, is_unlimited, d + 1,
                        WalkDirection(b, dirs[d], is_unlimited,
                                      b.pos.row + dirs[d].dr, b.pos.col + dirs[d].dc,
                                      positions, max_positions),
                        max_positions)

\* The positions written, in order; the returned count is their number.
check_positions_in_directions(b, dirs, dir_count, is_unlimited, max_positions) ==
    ScanDirections(b, dirs, dir_count, is_unlimited, 1, <<>>, max_positions)

board_get_available_positions(b, max_positions) ==
    CASE b.piece_type = PIECE_ROOK ->
           check_positions_in_directions(b, ROOK_DIRS, ROOK_DIRS_COUNT, ROOK_UNLIMITED, max_positions)
      [] b.piece_type = PIECE_KING ->
           check_positions_in_directions(b, KING_DIRS, KING_DIRS_COUNT, KING_UNLIMITED, max_positions)
      [] b.piece_type = PIECE_QUEEN ->
           check_positions_in_directions(b, QUEEN_DIRS, QUEEN_DIRS_COUNT, QUEEN_UNLIMITED, max_positions)
      [] b.piece_type = PIECE_KNIGHT ->
           check_positions_in_directions(b, KNIGHT_DIRS, KNIGHT_DIRS_COUNT, KNIGHT_UNLIMITED, max_positions)
      [] OTHER -> <<>>

----------------------------------------------------------------------------
(* minimax.c *)

MAX_POSITIONS == 256
MAX_DEPTH_FOR_SYMMETRY == 3

fabs(x) == IF x < 0 THEN 0 - x ELSE x

\* Mutant: the nearer position comes first.
compare_positions_nearest_first(pos_a, pos_b, b) ==
    LET dist_a2 == fabs(2 * pos_a.row - b.center_row2) + fabs(2 * pos_a.col - b.center_col2)
        dist_b2 == fabs(2 * pos_b.row - b.center_row2) + fabs(2 * pos_b.col - b.center_col2)
    IN  IF dist_b2 < dist_a2 THEN 1
        ELSE IF dist_b2 > dist_a2 THEN -1
        ELSE 0

\* dist_a and dist_b are compared doubled: 2 * dist = |2 row - 2 center_row| +
\* |2 col - 2 center_col|.  All the doubles involved are multiples of 0.5.
compare_positions_heuristic(pos_a, pos_b, b) ==
    LET dist_a2 == fabs(2 * pos_a.row - b.center_row2) + fabs(2 * pos_a.col - b.center_col2)
        dist_b2 == fabs(2 * pos_b.row - b.center_row2) + fabs(2 * pos_b.col - b.center_col2)
    IN  IF dist_b2 > dist_a2 THEN 1
        ELSE IF dist_b2 < dist_a2 THEN -1
        ELSE 0

\* qsort leaves the order of elements that compare equal unspecified: every
\* arrangement of the array in which no element is followed by one that the
\* comparator puts before it.  remaining holds the indices not yet placed.
RECURSIVE qsort(_, _, _)
qsort(b, positions, remaining) ==
    IF remaining = {} THEN {<<>>}
    ELSE UNION { { <<positions[k]>> \o rest : rest \in qsort(b, positions, remaining \ {k}) }
                 : k \in { k \in remaining :
                             \A j \in remaining :
                                compare_positions_heuristic(positions[k], positions[j], b) <= 0 } }

\* Mutant: the sort keys the candidates by distance, a later candidate
\* overwriting an earlier one of the same distance.
sort_moves_losing_ties(b, positions) ==
    qsort(b, positions,
          { k \in 1..Len(positions) :
              \A j \in (k + 1)..Len(positions) :
                  compare_positions_heuristic(positions[k], positions[j], b) # 0 })

\* The arrays sort_moves_by_heuristic can leave in positions.
sort_moves_by_heuristic(b, positions) == qsort(b, positions, 1..Len(positions))

\* Mutant: only the position of the token is tested, not the bitmap.
check_horizontal_symmetry_axis_only(b) == b.pos.col * 2 = b.cols - 1

check_horizontal_symmetry(b) ==
    IF b.pos.col * 2 # b.cols - 1 THEN FALSE
    ELSE LET half_cols == (b.cols + 1) \div 2
         IN  \A r \in 0..(b.rows - 1) : \A c \in 0..(half_cols - 1) :
                board_get(b, r, c) = board_get(b, r, b.cols - 1 - c)

check_vertical_symmetry(b) ==
    IF b.pos.row * 2 # b.rows - 1 THEN FALSE
    ELSE LET half_rows == (b.rows + 1) \div 2
         IN  \A r \in 0..(half_rows - 1) : \A c \in 0..(b.cols - 1) :
                board_get(b, r, c) = board_get(b, b.rows - 1 - r, c)

\* The scan for the smallest of candidates[i..], canonical being the
\* smallest so far.
RECURSIVE SmallestCandidate(_, _, _)
SmallestCandidate(candidates, i, canonical) ==
    IF i > Len(candidates) THEN canonical
    ELSE SmallestCandidate(candidates, i + 1,
            IF candidates[i].row < canonical.row
               \/ (candidates[i].row = canonical.row /\ candidates[i].col < canonical.col)
            THEN candidates[i] ELSE canonical)

\* Mutant: the image under both mirrors is left out.
get_canonical_position_single_mirrors(pos, rows, cols, is_h_sym, is_v_sym) ==
    LET candidates ==
            <<pos>>
            \o (IF is_h_sym THEN <<Position(pos.row, cols - 1 - pos.col)>> ELSE <<>>)
            \o (IF is_v_sym THEN <<Position(rows - 1 - pos.row, pos.col)>> ELSE <<>>)
    IN  SmallestCandidate(candidates, 2, pos)

get_canonical_position(pos, rows, cols, is_h_sym, is_v_sym) ==
    LET candidates ==
            <<pos>>
            \o (IF is_h_sym THEN <<Position(pos.row, cols - 1 - pos.col)>> ELSE <<>>)
            \o (IF is_v_sym THEN <<Position(rows - 1 - pos.row, pos.col)>> ELSE <<>>)
            \o (IF is_h_sym /\ is_v_sym
                THEN <<Position(rows - 1 - pos.row, cols - 1 - pos.col)>> ELSE <<>>)
    IN  SmallestCandidate(candidates, 2, pos)

\* Mutant: the index is not reduced to the size of the table.
SeenHashExact(canonical, cols) == canonical.row * cols + canonical.col

\* Mutant: the index leaves out the column.
SeenHashOfRow(canonical, cols) == (canonical.row * cols) % (MAX_POSITIONS * 2)

\* The index of a canonical cell in the seen table of MAX_POSITIONS * 2 flags.
SeenHash(canonical, cols) == (canonical.row * cols + canonical.col) % (MAX_POSITIONS * 2)

\* The deduplication loop of filter_symmetric_moves from index i on; seen is
\* the set of table indices whose flag is set.
RECURSIVE FilterLoop(_, _, _, _, _, _, _)
FilterLoop(b, positions, is_h_sym, is_v_sym, i, seen, filtered) ==
    IF i > Len(positions) THEN filtered
    ELSE LET canonical == get_canonical_position(positions[i], b.rows, b.cols, is_h_sym, is_v_sym)
             hash == SeenHash(canonical, b.cols)
         IN  IF hash \notin seen
             THEN FilterLoop(b, positions, is_h_sym, is_v_sym, i + 1,
                             seen \cup {hash}, Append(filtered, positions[i]))
             ELSE FilterLoop(b, positions, is_h_sym, is_v_sym, i + 1, seen, filtered)

\* Mutant: the kept candidates are stored from the end of the array.
filter_symmetric_moves_reversed(b, positions) ==
    LET is_h_sym == check_horizontal_symmetry(b)
        is_v_sym == check_vertical_symmetry(b)
        filtered == FilterLoop(b, positions, is_h_sym, is_v_sym, 1, {}, <<>>)
    IN  IF ~is_h_sym /\ ~is_v_sym THEN positions
        ELSE [k \in 1..Len(filtered) |-> filtered[Len(filtered) + 1 - k]]

\* Mutant: the filter returns the count it was given.
filter_symmetric_moves_keeps_all(b, positions) == positions

\* The array left in positions; the returned count is its length.
filter_symmetric_moves(b, positions) ==
    LET is_h_sym == check_horizontal_symmetry(b)
        is_v_sym == check_vertical_symmetry(b)
    IN  IF ~is_h_sym /\ ~is_v_sym THEN positions
        ELSE FilterLoop(b, positions, is_h_sym, is_v_sym, 1, {}, <<>>)

MinimaxResult(winner, node_count) == [winner |-> winner, node_count |-> node_count]

NoResult == [none |-> "result"]
NoRun == [none |-> "run"]
NoPosition == [none |-> "position"]
NoCall == [none |-> "call"]

\* The candidate arrays a call at the given depth can iterate over: the
\* available positions, filtered when symmetry is on and the call is shallow
\* enough, then sorted when heuristic is on.
Candidates(b, depth, h, s) ==
    LET available == board_get_available_positions(b, MAX_POSITIONS)
        filtered == IF s /\ depth <= MAX_DEPTH_FOR_SYMMETRY
                    THEN filter_symmetric_moves(b, available)
                    ELSE available
    IN  IF h THEN sort_moves_by_heuristic(b, filtered) ELSE {filtered}

\* Mutant: the test forgets which player moves, if (child_result.winner).
ChildWinsForFirst(child_result, player) == child_result.winner = TRUE

\* Mutant: no child result ends the loop.
ChildNeverEndsLoop(child_result, player) == FALSE

\* The test that ends the loop early.
ChildWinsForMover(child_result, player) == child_result.winner = player

\* The arguments of the call about to be entered: main calls
\* minimax(board, 0, true, ...), a frame calls minimax(board, depth + 1, !player, ...).
CallDepth == IF stack = <<>> THEN 0 ELSE stack[Len(stack)].depth + 1
CallPlayer == IF stack = <<>> THEN TRUE ELSE ~stack[Len(stack)].player

Top == stack[Len(stack)]
Pop == SubSeq(stack, 1, Len(stack) - 1)
SetTop(frame) == [stack EXCEPT ![Len(stack)] = frame]

----------------------------------------------------------------------------
(* main.c and the steps of minimax *)

ArgValues == (0 - MaxNeg)..(IF MaxRows > MaxCols THEN MaxRows ELSE MaxCols)

\* The program is started on any arguments within the bounds, without options.
Init ==
    /\ argv \in { a \in [height : (0 - MaxNeg)..MaxRows, width : (0 - MaxNeg)..MaxCols,
                         initial_row : ArgValues, initial_col : ArgValues, piece_type : PieceType] :
                    a.height * a.width <= MaxCells }
    /\ heuristic = FALSE
    /\ symmetry = FALSE
    /\ board = NULL
    /\ stack = <<>>
    /\ pc = "main"
    /\ retval = NoResult
    /\ result = NoResult
    /\ prev = NoRun
    /\ invocations = 0
    /\ called = NoCall

BadSize == argv.height <= 0 \/ argv.width <= 0

BadPosition == \/ argv.initial_row < 0 \/ argv.initial_row >= argv.height
               \/ argv.initial_col < 0 \/ argv.initial_col >= argv.width

\* main: "Error: Board size must be positive", return 1.
main_bad_size ==
    /\ pc = "main"
    /\ BadSize
    /\ pc' = "exit1"
    /\ UNCHANGED <<called, argv, heuristic, symmetry, board, stack, retval, result, prev, invocations>>

\* main: "Error: Initial position out of bounds", return 1.
main_bad_position ==
    /\ pc = "main"
    /\ ~BadSize
    /\ BadPosition
    /\ pc' = "exit1"
    /\ UNCHANGED <<called, argv, heuristic, symmetry, board, stack, retval, result, prev, invocations>>

\* main: board_create returned NULL, "Error: Failed to create board", return 1.
main_create_failed ==
    /\ pc = "main"
    /\ ~BadSize
    /\ ~BadPosition
    /\ NULL \in board_create(argv.height, argv.width,
                             Position(argv.initial_row, argv.initial_col), argv.piece_type)
    /\ pc' = "exit1"
    /\ UNCHANGED <<called, argv, heuristic, symmetry, board, stack, retval, result, prev, invocations>>

\* main: the board is created and minimax(board, 0, true, ...) is called.
main_search ==
    /\ pc = "main"
    /\ ~BadSize
    /\ ~BadPosition
    /\ \E b \in board_create(argv.height, argv.width,
                             Position(argv.initial_row, argv.initial_col), argv.piece_type) :
          /\ b # NULL
          /\ board' = b
    /\ pc' = "call"
    /\ invocations' = 0
    /\ UNCHANGED <<called, argv, heuristic, symmetry, stack, retval, result, prev>>

\* A variant of minimax_no_moves that names the stuck mover the winner.
minimax_no_moves_mover_wins ==
    /\ pc = "call"
    /\ board_get_available_positions(board, MAX_POSITIONS) = <<>>
    /\ retval' = MinimaxResult(CallPlayer, 1)
    /\ pc' = "ret"
    /\ invocations' = invocations + 1
    /\ UNCHANGED <<called, argv, heuristic, symmetry, board, stack, result, prev>>

\* minimax, count == 0: the mover has no move and loses.
minimax_no_moves ==
    /\ pc = "call"
    /\ board_get_available_positions(board, MAX_POSITIONS) = <<>>
    /\ retval' = MinimaxResult(~CallPlayer, 1)
    /\ pc' = "ret"
    /\ invocations' = invocations + 1
    /\ UNCHANGED <<called, argv, heuristic, symmetry, board, stack, result, prev>>

\* minimax up to its loop: the candidates are generated, filtered and sorted.
\* Three fields of the frame are history: entry, the calls entered before this
\* one; entry_board, the board as the call found it; explored, the candidates
\* whose calls have returned without ending the loop, with the winner returned.
minimax_enter ==
    /\ pc = "call"
    /\ board_get_available_positions(board, MAX_POSITIONS) # <<>>
    /\ \E positions \in Candidates(board, CallDepth, heuristic, symmetry) :
          stack' = Append(stack, [depth |-> CallDepth, player |-> CallPlayer,
                                  positions |-> positions, i |-> 1, node_count |-> 1,
                                  old_pos |-> NoPosition, entry |-> invocations,
                                  entry_board |-> board, explored |-> <<>>])
    /\ pc' = "loop"
    /\ invocations' = invocations + 1
    /\ UNCHANGED <<called, argv, heuristic, symmetry, board, retval, result, prev>>

\* The loop body up to the recursive call.
minimax_make_move ==
    /\ pc = "loop"
    /\ Top.i <= Len(Top.positions)
    /\ LET moved == board_make_move(board, Top.positions[Top.i])
       IN  /\ board' = moved.board
           /\ stack' = SetTop([Top EXCEPT !.old_pos = moved.old_pos])
    /\ pc' = "call"
    /\ UNCHANGED <<called, argv, heuristic, symmetry, retval, result, prev, invocations>>

\* Mutant: the child is counted as one state, result.node_count += 1.
AddChildAsOne(node_count, child_result) == node_count + 1

\* result.node_count += child_result.node_count
AddChildCount(node_count, child_result) == node_count + child_result.node_count

\* The loop body after the recursive call, the child not winning for the mover.
minimax_next_candidate ==
    /\ pc = "ret"
    /\ stack # <<>>
    /\ ~ChildWinsForMover(retval, Top.player)
    /\ board' = board_undo_move(board, Top.positions[Top.i], Top.old_pos)
    /\ stack' = SetTop([Top EXCEPT !.node_count = AddChildCount(Top.node_count, retval),
                                   !.i = Top.i + 1,
                                   !.explored = Append(Top.explored,
                                                       [position |-> Top.positions[Top.i],
                                                        winner |-> retval.winner])])
    /\ retval' = NoResult
    /\ pc' = "loop"
    /\ UNCHANGED <<called, argv, heuristic, symmetry, result, prev, invocations>>

\* A variant of minimax_short_circuit that returns before the move is undone.
minimax_short_circuit_without_undo ==
    /\ pc = "ret"
    /\ stack # <<>>
    /\ ChildWinsForMover(retval, Top.player)
    /\ retval' = MinimaxResult(Top.player, AddChildCount(Top.node_count, retval))
    /\ stack' = Pop
    /\ UNCHANGED <<called, argv, heuristic, symmetry, board, pc, result, prev, invocations>>

\* The loop body after the recursive call, the child winning for the mover:
\* the call returns at once.
minimax_short_circuit ==
    /\ pc = "ret"
    /\ stack # <<>>
    /\ ChildWinsForMover(retval, Top.player)
    /\ board' = board_undo_move(board, Top.positions[Top.i], Top.old_pos)
    /\ retval' = MinimaxResult(Top.player, AddChildCount(Top.node_count, retval))
    /\ stack' = Pop
    /\ UNCHANGED <<called, argv, heuristic, symmetry, pc, result, prev, invocations>>

\* The loop ends with no candidate left: the mover loses.
minimax_exhausted ==
    /\ pc = "loop"
    /\ Top.i > Len(Top.positions)
    /\ retval' = MinimaxResult(~Top.player, Top.node_count)
    /\ stack' = Pop
    /\ pc' = "ret"
    /\ UNCHANGED <<called, argv, heuristic, symmetry, board, result, prev, invocations>>

\* main after the search: the result is printed, the board destroyed, return 0.
main_print_result ==
    /\ pc = "ret"
    /\ stack = <<>>
    /\ result' = retval
    /\ retval' = NoResult
    /\ board' = NULL
    /\ pc' = "done"
    /\ UNCHANGED <<called, argv, heuristic, symmetry, stack, prev, invocations>>

\* The program is run again on the same arguments with --heuristic added.
run_again_with_heuristic ==
    /\ pc = "done"
    /\ ~heuristic
    /\ argv.height * argv.width <= MaxHeuristicCells
    /\ prev' = [heuristic |-> heuristic, symmetry |-> symmetry, result |-> result]
    /\ heuristic' = TRUE
    /\ result' = NoResult
    /\ pc' = "main"
    /\ invocations' = 0
    /\ UNCHANGED <<called, argv, symmetry, board, stack, retval>>

\* The program is run again on the same arguments with --symmetry added.
run_again_with_symmetry ==
    /\ pc = "done"
    /\ ~symmetry
    /\ prev' = [heuristic |-> heuristic, symmetry |-> symmetry, result |-> result]
    /\ symmetry' = TRUE
    /\ result' = NoResult
    /\ pc' = "main"
    /\ invocations' = 0
    /\ UNCHANGED <<called, argv, heuristic, board, stack, retval>>

\* board_create called directly, on any arguments: the caller of the board
\* module is not main here.
InitCreate ==
    /\ argv \in [height : (0 - MaxNeg)..MaxRows, width : (0 - MaxNeg)..MaxCols,
                 initial_row : ArgValues, initial_col : ArgValues, piece_type : PieceType]
    /\ heuristic = FALSE
    /\ symmetry = FALSE
    /\ board = NULL
    /\ stack = <<>>
    /\ pc = "create"
    /\ retval = NoResult
    /\ result = NoResult
    /\ prev = NoRun
    /\ invocations = 0
    /\ called = NoCall

call_board_create ==
    /\ pc = "create"
    /\ board' \in board_create(argv.height, argv.width,
                               Position(argv.initial_row, argv.initial_col), argv.piece_type)
    /\ pc' = "created"
    /\ UNCHANGED <<called, argv, heuristic, symmetry, stack, retval, result, prev, invocations>>

NextCreate == call_board_create

SpecCreate == InitCreate /\ [][NextCreate]_vars

\* The move generator and the symmetry filter called on their own on a fresh
\* board: the boards of main's sizes and boards as wide as the seen table of
\* the filter or wider, which the search cannot finish on; on the wide
\* boards the piece is one that steps, its move list being short.
DirectWidths == (1..MaxCols) \cup { MAX_POSITIONS * 2 + k : k \in 0..MaxOver }

InitCalls ==
    /\ argv \in { a \in [height : 1..MaxRows, width : DirectWidths,
                         initial_row : 0..(MaxRows - 1), initial_col : 0..(MaxCols - 1),
                         piece_type : PieceType] :
                    /\ a.initial_row < a.height /\ a.initial_col < a.width
                    /\ a.width > MaxCols => a.piece_type \in {PIECE_KING, PIECE_KNIGHT} }
    /\ heuristic = FALSE
    /\ symmetry = FALSE
    /\ board \in board_create(argv.height, argv.width,
                              Position(argv.initial_row, argv.initial_col), argv.piece_type)
                    \ {NULL}
    /\ stack = <<>>
    /\ pc = "caller"
    /\ retval = NoResult
    /\ result = NoResult
    /\ prev = NoRun
    /\ invocations = 0
    /\ called = NoCall

\* board_get_available_positions with the capacity of minimax or a small one.
call_board_get_available_positions ==
    /\ pc = "caller"
    /\ \E max_positions \in (0..MaxCapacity) \cup {MAX_POSITIONS} :
          called' = [function |-> "board_get_available_positions",
                     max_positions |-> max_positions,
                     positions |-> <<>>,
                     returned |-> board_get_available_positions(board, max_positions)]
    /\ pc' = "returned"
    /\ UNCHANGED <<argv, heuristic, symmetry, board, stack, retval, result, prev, invocations>>

\* filter_symmetric_moves on the array minimax hands it at the root.
call_filter_symmetric_moves ==
    /\ pc = "caller"
    /\ LET positions == board_get_available_positions(board, MAX_POSITIONS)
       IN  called' = [function |-> "filter_symmetric_moves",
                      max_positions |-> MAX_POSITIONS,
                      positions |-> positions,
                      returned |-> filter_symmetric_moves(board, positions)]
    /\ pc' = "returned"
    /\ UNCHANGED <<argv, heuristic, symmetry, board, stack, retval, result, prev, invocations>>

NextCalls ==
    \/ call_board_get_available_positions
    \/ call_filter_symmetric_moves

SpecCalls == InitCalls /\ [][NextCalls]_vars

Next ==
    \/ main_bad_size
    \/ main_bad_position
    \/ main_create_failed
    \/ main_search
    \/ minimax_no_moves
    \/ minimax_enter
    \/ minimax_make_move
    \/ minimax_next_candidate
    \/ minimax_short_circuit
    \/ minimax_exhausted
    \/ main_print_result
    \/ run_again_with_heuristic
    \/ run_again_with_symmetry

Spec == Init /\ [][Next]_vars

----------------------------------------------------------------------------
(* The game, stated without the code: used by the properties below. *)

Cells(rows, cols) == [row : 0..(rows - 1), col : 0..(cols - 1)]

Visited(b) == { cell \in Cells(b.rows, b.cols) : board_get(b, cell.row, cell.col) = 1 }

\* The one-step offsets of a piece.
Offsets(piece) ==
    LET all == { o \in [dr : -2..2, dc : -2..2] : o.dr # 0 \/ o.dc # 0 }
    IN  CASE piece = PIECE_ROOK   -> { o \in all : (o.dr = 0 \/ o.dc = 0) /\ o.dr \in -1..1 /\ o.dc \in -1..1 }
          [] piece = PIECE_KING   -> { o \in all : o.dr \in -1..1 /\ o.dc \in -1..1 }
          [] piece = PIECE_QUEEN  -> { o \in all : o.dr \in -1..1 /\ o.dc \in -1..1 }
          [] piece = PIECE_KNIGHT -> { o \in all : o.dr * o.dr + o.dc * o.dc = 5 }

Sliding(piece) == piece \in {PIECE_ROOK, PIECE_QUEEN}

\* The unvisited cells the piece reaches from the cell from: one offset away
\* for King and Knight, any number of offsets away along a ray for Rook and
\* Queen, visited cells on the way not stopping the ray.
Reachable(rows, cols, piece, visited, from) ==
    { cell \in Cells(rows, cols) \ visited :
        \E o \in Offsets(piece) :
            \E k \in 1..(IF Sliding(piece) THEN rows + cols ELSE 1) :
                cell.row = from.row + k * o.dr /\ cell.col = from.col + k * o.dc }

\* The player to move from the cell at, the cells of visited being used up,
\* has a forced win: some move leaves the opponent without one.
RECURSIVE MoverWins(_, _, _, _, _)
MoverWins(rows, cols, piece, visited, at) ==
    \E cell \in Reachable(rows, cols, piece, visited, at) :
        ~MoverWins(rows, cols, piece, visited \cup {cell}, cell)

OptionsOff == ~heuristic /\ ~symmetry

Range(seq) == { seq[i] : i \in 1..Len(seq) }

----------------------------------------------------------------------------
(* Properties *)

\* C1: with all options off, every minimax call returns its mover as winner
\* exactly when the mover has a forced win in the game from the node's board
\* (when a call returns, CallPlayer is its mover and board its node); in
\* particular the root call returns winner = TRUE exactly when the first
\* player has a forced win.
C1_WinnerIsForcedWin ==
    (pc = "ret" /\ OptionsOff) =>
        ((retval.winner = CallPlayer)
            <=> MoverWins(board.rows, board.cols, board.piece_type, Visited(board), board.pos))

\* C1 witness: a root call on a board of at least six cells returns a forced
\* win of the first player found by searching.
C1_Witness ==
    /\ pc = "ret" /\ OptionsOff /\ stack = <<>>
    /\ board.rows * board.cols >= 6
    /\ retval.winner = TRUE
    /\ retval.node_count > 1

\* A run with one option added has ended, and the run before it on the same
\* arguments too.
AddedSymmetry == pc = "done" /\ prev # NoRun /\ symmetry /\ ~prev.symmetry
AddedHeuristic == pc = "done" /\ prev # NoRun /\ heuristic /\ ~prev.heuristic

\* C2: the root search with symmetry reduction returns the same winner as
\* the root search without it on the same board, start cell and piece, the
\* other options being equal.
C2_SymmetryKeepsWinner ==
    AddedSymmetry => result.winner = prev.result.winner

\* C2 witness: a run in which symmetry reduction removed candidates (it
\* visited fewer states than the run without it) has ended.
C2_Witness ==
    AddedSymmetry /\ result.node_count < prev.result.node_count

\* C3: the root search with heuristic ordering returns the same winner as
\* the root search without it, however the sort orders candidates at equal
\* distance (every order is a behaviour of the model).
C3_HeuristicKeepsWinner ==
    AddedHeuristic => result.winner = prev.result.winner

\* C3 witness: a run in which the ordering changed the exploration (the
\* node count differs from the run without it) has ended.
C3_Witness ==
    AddedHeuristic /\ result.node_count # prev.result.node_count

\* C4: node_count is the number of minimax calls made: when a call is back
\* in its loop its count is the calls entered since it was entered, itself
\* included; when a child returns, the parent's count plus the child's is
\* that number, whether or not the parent goes on; the count returned to
\* main and printed is the number of calls of the run.
C4_NodeCountIsCalls ==
    /\ (pc = "loop") => Top.node_count = invocations - Top.entry
    /\ (pc = "ret" /\ stack # <<>>) =>
            Top.node_count + retval.node_count = invocations - Top.entry
    /\ (pc = "ret" /\ stack = <<>>) => retval.node_count = invocations
    /\ (pc = "done") => result.node_count = invocations

\* C4 witness: a call that explored at least two children, the second of
\* them with children of its own, returns by the short circuit, leaving a
\* candidate untried.
C4_Witness ==
    /\ pc = "ret" /\ stack # <<>>
    /\ Top.i >= 2 /\ Top.i < Len(Top.positions)
    /\ retval.node_count >= 2
    /\ retval.winner = Top.player

\* C5: on every board the search reaches, for every legal destination,
\* board_make_move followed by board_undo_move with the move's destination
\* and the returned old position gives back the same bitmap and position.
C5_MakeUndoRoundTrip ==
    (board # NULL) =>
        \A d \in Range(board_get_available_positions(board, MAX_POSITIONS)) :
            LET moved == board_make_move(board, d)
            IN  /\ moved.board # board
                /\ board_undo_move(moved.board, d, moved.old_pos) = board

\* C5 witness: a frame at depth two or more has made and undone a move and
\* still has legal destinations.
C5_Witness ==
    /\ pc = "loop" /\ Len(stack) >= 3 /\ Top.i >= 2
    /\ board_get_available_positions(board, MAX_POSITIONS) # <<>>

\* C6: the legal moves are each listed once, never the current position, and
\* are exactly the unvisited in-bounds cells one offset away (King, Knight)
\* or on a ray from the position up to the edge, visited cells on the ray
\* being left out without stopping it (Rook, Queen).
C6_LegalMoves ==
    (board # NULL) =>
        LET positions == board_get_available_positions(board, MAX_POSITIONS)
        IN  /\ \A i, j \in 1..Len(positions) : positions[i] = positions[j] => i = j
            /\ board.pos \notin Range(positions)
            /\ Range(positions) = Reachable(board.rows, board.cols, board.piece_type,
                                            Visited(board), board.pos)

\* C6 witness: a Rook or Queen has a legal destination two columns to the
\* right behind a visited cell.
C6_Witness ==
    /\ board # NULL
    /\ Sliding(board.piece_type)
    /\ board.pos.col + 2 < board.cols
    /\ board_get(board, board.pos.row, board.pos.col + 1) = 1
    /\ Position(board.pos.row, board.pos.col + 2)
          \in Range(board_get_available_positions(board, MAX_POSITIONS))

Rook2x2 == argv = [height |-> 2, width |-> 2, initial_row |-> 0, initial_col |-> 0,
                   piece_type |-> PIECE_ROOK]

King3x3 == argv = [height |-> 3, width |-> 3, initial_row |-> 1, initial_col |-> 1,
                   piece_type |-> PIECE_KING]

\* C7 as stated: on a 2x2 board with a Rook at (0,0) and all options off the
\* search returns second-player-wins with five states visited.
C7_SecondWinsInFive ==
    (Rook2x2 /\ pc = "done" /\ OptionsOff) => result = MinimaxResult(FALSE, 5)

\* C7 as amended: on a 2x2 board with a Rook at (0,0) and all options off the
\* search returns first-player-wins with four states visited (three forced
\* moves use up the board and the second player is left without one).
C7_FirstWinsInFour ==
    (Rook2x2 /\ pc = "done" /\ OptionsOff) => result = MinimaxResult(TRUE, 4)

\* C7 witness: that search has ended.
C7_Witness ==
    Rook2x2 /\ pc = "done" /\ OptionsOff /\ result # NoResult

\* The root call of a run with symmetry reduction alone is in its loop, the
\* board as it was on entry.
RootFiltered == symmetry /\ ~heuristic /\ pc = "loop" /\ Len(stack) = 1

\* C8 as stated: on a 3x3 board with a King at (1,1) the root has eight legal
\* moves and the symmetry filter leaves one candidate.
C8_OneRepresentative ==
    (King3x3 /\ RootFiltered) =>
        /\ Len(board_get_available_positions(board, MAX_POSITIONS)) = 8
        /\ Len(stack[1].positions) = 1

\* C8 as amended: on a 3x3 board with a King at (1,1) the root has eight
\* legal moves and the symmetry filter leaves three candidates, (2,1), (1,2)
\* and (2,2): one for the two cells above and below, one for the two cells
\* left and right, one for the four corners.
C8_ThreeRepresentatives ==
    (King3x3 /\ RootFiltered) =>
        /\ Len(board_get_available_positions(board, MAX_POSITIONS)) = 8
        /\ stack[1].positions = <<Position(2, 1), Position(1, 2), Position(2, 2)>>

\* C8 witness: the root call of that search has filtered its candidates and
\* tried none yet.
C8_Witness ==
    King3x3 /\ RootFiltered /\ Top.i = 1

\* C9: on a 3x3 board with a King at (1,1), heuristic ordering off, the run
\* without symmetry reduction visits strictly more states than the run with it.
C9_SymmetryVisitsFewer ==
    (King3x3 /\ AddedSymmetry /\ ~heuristic) =>
        prev.result.node_count > result.node_count

\* C9 witness: both runs have ended.
C9_Witness ==
    King3x3 /\ AddedSymmetry /\ ~heuristic /\ result # NoResult

\* C10: board_create returns no board when rows <= 0 or cols <= 0.
C10_CreateFailsOnBadSize ==
    (pc = "created" /\ BadSize) => board = NULL

\* The piece cannot move: no unvisited cell is reachable from its position.
Stuck(b) == Reachable(b.rows, b.cols, b.piece_type, Visited(b), b.pos) = {}

Knight1x2 == argv.height = 1 /\ argv.width = 2 /\ argv.piece_type = PIECE_KNIGHT

Board1x1 == argv.height = 1 /\ argv.width = 1

\* C11: a minimax call on a node whose mover has no legal move returns the
\* opponent of the mover as winner with one state visited; the root search on
\* a 1x1 board with any piece, and with a Knight on a 1x2 board from either
\* cell, returns second-player-wins with one state visited after one call.
C11_NoMoveLoses ==
    /\ (pc = "ret" /\ Stuck(board)) => retval = MinimaxResult(~CallPlayer, 1)
    /\ (pc = "done" /\ (Board1x1 \/ Knight1x2)) =>
           result = MinimaxResult(FALSE, 1) /\ invocations = 1

\* C11 witness: the search of a Knight on a 1x2 board has returned to main.
C11_Witness ==
    Knight1x2 /\ pc = "ret" /\ stack = <<>> /\ Stuck(board)

\* A call with a frame returns in this step.
FrameReturns == Len(stack') < Len(stack)

\* A call without legal moves is made and returns in this step.
LeafReturns == pc = "call" /\ pc' = "ret"

\* C12: every move a call makes is undone before the call returns, on both
\* exits of the loop: whenever a call is back in its loop, and in the step in
\* which it returns, at any depth and under any options, the board (bitmap
\* and position) is the board the call was entered with.
C12_ReturnRestoresBoard ==
    /\ [](pc = "loop" => board = Top.entry_board)
    /\ [][/\ FrameReturns => board' = Top.entry_board
          /\ LeafReturns => board' = board]_vars

\* C12 witness: a call below the root that made a move has returned by the
\* short circuit.
C12_Witness ==
    /\ pc = "ret" /\ stack # <<>>
    /\ retval.winner = CallPlayer /\ retval.node_count >= 2

\* The destination of the most recent move not yet undone: the candidate the
\* innermost frame is on, once it has made its move.
MoveInFlight == pc \in {"call", "ret"} /\ stack # <<>>
LastMove == Top.positions[Top.i]

\* The visited flag of the cell is cleared in this step.
Cleared(cell) ==
    /\ board # NULL /\ board' # NULL
    /\ cell \in Cells(board.rows, board.cols)
    /\ board_get(board, cell.row, cell.col) = 1
    /\ board_get(board', cell.row, cell.col) = 0

\* C13: in every state of a search the current position is a cell of the
\* board and is marked visited, and a step clears the visited flag of no cell
\* but the destination of the most recent move not yet undone, on which the
\* piece then stands: moves are undone last made, first undone.
C13_PositionVisitedUndoLifo ==
    /\ []((board # NULL) =>
            /\ board.pos \in Cells(board.rows, board.cols)
            /\ board_get(board, board.pos.row, board.pos.col) = 1)
    /\ [][\A cell \in Cells(MaxRows, MaxCols) :
            Cleared(cell) => MoveInFlight /\ cell = LastMove /\ cell = board.pos]_vars

\* C13 witness: two moves are in flight and the inner frame has undone a
\* move before.
C13_Witness ==
    /\ MoveInFlight /\ Len(stack) >= 2 /\ Top.i >= 2
    /\ board_get(board, LastMove.row, LastMove.col) = 1

\* The child whose call has just returned won for the mover of the frame.
ChildWon == pc = "ret" /\ stack # <<>> /\ retval.winner = Top.player

\* C14: a call tries its candidates in list order and stops at the first
\* whose subtree returns the mover as winner. In every frame the children
\* explored so far are the candidates before the current one, in order, none
\* of them won by the mover, and a move in flight is the current candidate; a
\* frame returns either right after a child won by its mover, itself winning,
\* or with all candidates explored and none won, itself losing; after a
\* child won by the mover the frame returns without another move.
C14_ShortCircuitOrder ==
    /\ [](\A k \in 1..Len(stack) :
            /\ Len(stack[k].explored) = stack[k].i - 1
            /\ \A j \in 1..Len(stack[k].explored) :
                  /\ stack[k].explored[j].position = stack[k].positions[j]
                  /\ stack[k].explored[j].winner # stack[k].player)
    /\ [](MoveInFlight => Top.i <= Len(Top.positions) /\ board.pos = LastMove)
    /\ [][/\ (FrameReturns /\ pc = "ret") =>
                ChildWon /\ retval'.winner = Top.player
          /\ (FrameReturns /\ pc = "loop") =>
                Top.i = Len(Top.positions) + 1 /\ retval'.winner # Top.player
          /\ ChildWon => FrameReturns /\ Len(stack') = Len(stack) - 1]_vars

\* C14 witness: the second candidate of a frame below the root won for the
\* mover while a third candidate is left untried.
C14_Witness ==
    /\ ChildWon /\ Len(stack) >= 2
    /\ Top.i = 2 /\ Len(Top.positions) >= 3

\* The mirror images of a cell under the symmetries detected, itself included.
Mirrors(pos, rows, cols, h, v) ==
    {pos}
    \cup (IF h THEN {Position(pos.row, cols - 1 - pos.col)} ELSE {})
    \cup (IF v THEN {Position(rows - 1 - pos.row, pos.col)} ELSE {})
    \cup (IF h /\ v THEN {Position(rows - 1 - pos.row, cols - 1 - pos.col)} ELSE {})

\* The canonical form of a cell: the smallest of its mirror images, rows
\* first, columns second.
Canonical(pos, b) ==
    LET images == Mirrors(pos, b.rows, b.cols,
                          check_horizontal_symmetry(b), check_vertical_symmetry(b))
    IN  CHOOSE m \in images :
            \A n \in images : m.row < n.row \/ (m.row = n.row /\ m.col <= n.col)

\* The subsequence of positions at the indices of keep, in the original order.
Subsequence(positions, keep) ==
    [k \in 1..Cardinality(keep) |->
        positions[CHOOSE i \in keep : Cardinality({ j \in keep : j <= i }) = k]]

\* The candidates whose canonical form is that of no earlier candidate.
Representatives(positions, b) ==
    Subsequence(positions,
                { i \in 1..Len(positions) :
                    \A j \in 1..(i - 1) : Canonical(positions[j], b) # Canonical(positions[i], b) })

FilterReturned == pc = "returned" /\ called.function = "filter_symmetric_moves"

SymmetryDetected(b) == check_horizontal_symmetry(b) \/ check_vertical_symmetry(b)

\* C15: the symmetry filter returns the list unchanged when neither symmetry
\* is detected, and otherwise the candidates, in their original order, whose
\* canonical form differs from the canonical form of every earlier candidate.
C15_FilterKeepsOnePerCanonicalForm ==
    FilterReturned =>
        called.returned = IF SymmetryDetected(board)
                          THEN Representatives(called.positions, board)
                          ELSE called.positions

Searching == pc \in {"call", "loop", "ret"}

\* How far the depth-first search has come: one number for main and one for
\* each frame, the root first. A frame counts its candidate index and, within
\* a candidate, whether the move is still to make (0), its call is running
\* (1) or has returned (2).
Phase(k) ==
    IF k < Len(stack) THEN 1
    ELSE CASE pc = "loop" -> 0 [] pc = "call" -> 1 [] pc = "ret" -> 2

Progress ==
    <<IF stack = <<>> /\ pc = "ret" THEN 2 ELSE 1>>
    \o [k \in 1..Len(stack) |-> 3 * stack[k].i + Phase(k)]

\* p comes before q in the lexicographic order, a proper prefix first.
LexLess(p, q) ==
    LET differ == { m \in 1..(IF Len(p) < Len(q) THEN Len(p) ELSE Len(q)) : p[m] # q[m] }
    IN  IF differ = {} THEN Len(p) < Len(q)
        ELSE LET n == CHOOSE n \in differ : \A m \in differ : n <= m
             IN  p[n] < q[n]

\* C16: every search on a board with rows, cols >= 1 from an in-bounds start
\* ends with a result; the depth of a call never exceeds rows * cols; a call
\* at depth d (the root at 0) is entered, runs its loop and returns with
\* exactly d + 1 cells marked visited. Termination: while it searches the
\* program can always take a step (a call has no move or has a candidate
\* array to loop over; the loop and a return can go on), every step moves
\* Progress forward in the lexicographic order, whose length and entries are
\* bounded by rows * cols, and the search is left only by printing a result.
C16_TerminatesDepthBounded ==
    /\ [](Searching =>
            /\ \A k \in 1..Len(stack) :
                  /\ stack[k].depth = k - 1
                  /\ stack[k].i <= Len(stack[k].positions) + 1
                  /\ Len(stack[k].positions) < board.rows * board.cols
            /\ stack # <<>> => Cardinality(Visited(Top.entry_board)) = Top.depth + 1
            /\ CallDepth <= board.rows * board.cols
            /\ pc = "loop" => Cardinality(Visited(board)) = Top.depth + 1
            /\ pc # "loop" => Cardinality(Visited(board)) = CallDepth + 1
            /\ pc = "call" =>
                  \/ board_get_available_positions(board, MAX_POSITIONS) = <<>>
                  \/ Candidates(board, CallDepth, heuristic, symmetry) # {}
            /\ pc = "loop" => ENABLED (minimax_make_move \/ minimax_exhausted)
            /\ pc = "ret" => ENABLED (minimax_next_candidate \/ minimax_short_circuit
                                        \/ main_print_result))
    /\ [][Searching =>
            IF Searching' THEN LexLess(Progress, Progress')
            ELSE pc' = "done" /\ result' \in [winner : BOOLEAN, node_count : Nat]]_vars

\* C16 witness: on a board of six cells or more a call at depth rows * cols - 1
\* has returned, every cell being visited.
C16_Witness ==
    /\ pc = "ret" /\ stack # <<>>
    /\ board.rows * board.cols >= 6
    /\ CallDepth = board.rows * board.cols - 1

\* The number of flags in the seen table of the filter.
TableSize == MAX_POSITIONS * 2

\* The key under which the filter remembers a candidate.
Key(pos, b) == (Canonical(pos, b).row * b.cols + Canonical(pos, b).col) % TableSize

\* Candidates i < j of the list have different canonical forms and one key.
Collide(positions, b, i, j) ==
    /\ i < j
    /\ Canonical(positions[i], b) # Canonical(positions[j], b)
    /\ Key(positions[i], b) = Key(positions[j], b)

\* C17: when a symmetry is detected the filter deduplicates by the key
\* (row * cols + col) mod 512 of the canonical cell: it returns, in order, the
\* candidates whose key no earlier candidate has, so of two candidates with
\* different canonical cells and one key the later is dropped; on a board of
\* at most 512 cells no two candidates with different canonical cells share
\* a key, and one candidate per canonical form is returned.
C17_DedupByKey ==
    (FilterReturned /\ SymmetryDetected(board)) =>
        LET positions == called.positions
            indices == 1..Len(positions)
        IN  /\ called.returned =
                  Subsequence(positions,
                              { i \in indices : \A j \in 1..(i - 1) :
                                    Key(positions[j], board) # Key(positions[i], board) })
            /\ \A i, j \in indices :
                  Collide(positions, board, i, j) => positions[j] \notin Range(called.returned)
            /\ board.rows * board.cols <= TableSize =>
                  /\ \A i, j \in indices : ~Collide(positions, board, i, j)
                  /\ called.returned = Representatives(positions, board)

\* C17 witness: the filter has returned from a list in which two candidates
\* with different canonical cells have one key.
C17_Witness ==
    /\ FilterReturned /\ SymmetryDetected(board)
    /\ \E i, j \in 1..Len(called.positions) : Collide(called.positions, board, i, j)

GeneratorReturned == pc = "returned" /\ called.function = "board_get_available_positions"

\* The legal destinations on the board.
Legal(b) == Reachable(b.rows, b.cols, b.piece_type, Visited(b), b.pos)

\* C18: board_get_available_positions returns at most max_positions entries:
\* the legal destinations in generation order, each once, when they are no
\* more than max_positions, and otherwise exactly the first max_positions of
\* them, the others being dropped.
C18_AtMostCapacity ==
    GeneratorReturned =>
        LET all == board_get_available_positions(board, board.rows * board.cols)
            legal == Legal(board)
        IN  /\ Len(called.returned) <= called.max_positions
            /\ Len(all) = Cardinality(legal)
            /\ Range(all) = legal
            /\ called.returned =
                  SubSeq(all, 1, IF Len(all) <= called.max_positions
                                 THEN Len(all) ELSE called.max_positions)

\* C18 witness: a call with room for two positions or more has returned on a
\* board with more legal destinations than that, its array full.
C18_Witness ==
    /\ GeneratorReturned
    /\ called.max_positions >= 2
    /\ Cardinality(Legal(board)) > called.max_positions
    /\ Len(called.returned) = called.max_positions

\* Twice the Manhattan distance of a cell from the point (rows / 2, cols / 2).
Distance2(pos, rows, cols) ==
    (IF 2 * pos.row >= rows THEN 2 * pos.row - rows ELSE rows - 2 * pos.row)
    + (IF 2 * pos.col >= cols THEN 2 * pos.col - cols ELSE cols - 2 * pos.col)

\* The list a frame had before sorting: the legal moves of the board it was
\* entered with, filtered when the symmetry reduction applies at its depth.
Unsorted(frame) ==
    LET available == board_get_available_positions(frame.entry_board, MAX_POSITIONS)
    IN  IF symmetry /\ frame.depth <= MAX_DEPTH_FOR_SYMMETRY
        THEN filter_symmetric_moves(frame.entry_board, available)
        ELSE available

\* C19: with heuristic ordering on, the candidate list of every call is a
\* permutation of its legal moves (filtered, where the symmetry reduction
\* applies) in which the Manhattan distance from the point (rows / 2, cols / 2)
\* never increases from one candidate to the next.
C19_FarthestFirst ==
    (heuristic /\ Searching) =>
        \A k \in 1..Len(stack) :
            LET positions == stack[k].positions
                unsorted == Unsorted(stack[k])
            IN  /\ Len(positions) = Len(unsorted)
                /\ Range(positions) = Range(unsorted)
                /\ Range(unsorted) \subseteq Legal(stack[k].entry_board)
                /\ \A i \in 1..(Len(positions) - 1) :
                      Distance2(positions[i], board.rows, board.cols)
                          >= Distance2(positions[i + 1], board.rows, board.cols)

\* C19 witness: a call loops over a list in which two candidates at the same
\* distance have changed places and a nearer candidate follows them.
C19_Witness ==
    /\ heuristic /\ pc = "loop"
    /\ \E i, j, n \in 1..Len(Top.positions) :
          /\ i < j /\ j < n
          /\ Distance2(Top.positions[i], board.rows, board.cols)
                = Distance2(Top.positions[j], board.rows, board.cols)
          /\ Distance2(Top.positions[j], board.rows, board.cols)
                > Distance2(Top.positions[n], board.rows, board.cols)
          /\ \E a, c \in 1..Len(Unsorted(Top)) :
                a < c /\ Unsorted(Top)[a] = Top.positions[j] /\ Unsorted(Top)[c] = Top.positions[i]

\* C20: with heuristic ordering off, the run with symmetry reduction visits
\* no more states than the run without it on the same board, start cell and
\* piece, the board having at most 512 cells.
C20_SymmetryVisitsNoMore ==
    (AddedSymmetry /\ ~heuristic /\ argv.height * argv.width <= TableSize) =>
        result.node_count <= prev.result.node_count

\* C20 witness: both runs have ended on a board other than the 3x3 of a King
\* from the centre, the symmetry filter having cut the search.
C20_Witness ==
    /\ AddedSymmetry /\ ~heuristic /\ ~King3x3
    /\ argv.height * argv.width <= TableSize
    /\ result.node_count < prev.result.node_count

====
